---- MODULE Spec2Model ----
(***************************************************************************)
(* Model of the calculate-route edge function                              *)
(* (supabase/functions/calculate-route/index.ts, second handler, lines     *)
(* 278-658): one request travelling through body parsing, the waypoint     *)
(* count check, the credential check, the concurrent geocoding calls, the  *)
(* filter / dedupe / minimum-points stage, the directions call and the     *)
(* construction of the response; of calculateRoute of the sidebar          *)
(* (src/components/sidebar/RouteSidebar.tsx), which invokes the function   *)
(* and stores its answer in the page's routeData; and of the effect of     *)
(* the map (src/components/map/MapContainer.tsx) that draws the polyline.  *)
(*                                                                         *)
(* Numbers.  Latitudes and longitudes are integers in micro-degrees        *)
(* (52.52 deg = 52520000), so the 1e-4 degree tolerance is 100.  A         *)
(* distance the code holds as a float number of kilometres is held here as *)
(* an integer number of centimetres.  A value for which Number.isFinite    *)
(* is false (undefined, null, NaN) is the value NaN.  The umlauts of the   *)
(* source's messages are written ue.                                       *)
(***************************************************************************)
EXTENDS Integers, Sequences, FiniteSets, TLC

\* ------------------------------------------------------------------ bounds
MaxWaypoints == 3
MaxCoords == 2
MaxPageWaypoints == 4
MaxClock == 2
MaxDropWaypoints == 4

\* ------------------------------------------------------- number primitives
NaN == -999999999

IsFinite(x) == x # NaN

\* JavaScript !== on numbers: NaN is unequal to everything, itself included
StrictNeq(a, b) == a = NaN \/ b = NaN \/ a # b

Abs(x) == IF x < 0 THEN 0 - x ELSE x

\* Math.round(a / b) for a >= 0, b > 0: halves go up
RoundDiv(a, b) == IF 2 * (a % b) >= b THEN (a \div b) + 1 ELSE a \div b

\* parseFloat of a coordinate string of the geocoder: a string that does
\* not start with a number gives NaN
NonNumeric == -888888888

parseFloat(s) == IF s = NonNumeric \/ s = NaN THEN NaN ELSE s

\* Number(x) of a summary field: absent (undefined) or unparseable gives NaN
Absent == -777777777

NumberOf(x) == IF x = Absent \/ x = NaN THEN NaN ELSE x

\* ------------------------------------------------------------ model points
Berlin == [lat |-> 52520000, lng |-> 13405000]
BerlinNear == [lat |-> 52520050, lng |-> 13405050]
Paris == [lat |-> 48856600, lng |-> 2352200]

Places == {Berlin, BerlinNear, Paris}

TolMicroDeg == 100

\* almostEqual comparing for equality, without the tolerance
almostEqual_exact(a, b) == a = b

\* lines 363-365: Math.abs(a - b) < tol
almostEqual(a, b) == Abs(a - b) < TolMicroDeg

\* haversineKm, in centimetres.  The trigonometric formula of the source is
\* evaluated on the pairs of model points; the values below are
\* 2 * 6371 * atan2(sqrt(a), sqrt(1 - a)) * 1e5, rounded.
haversineKm(lat1, lon1, lat2, lon2) ==
  LET p == <<lat1, lon1>>
      q == <<lat2, lon2>>
      a == <<Berlin.lat, Berlin.lng>>
      b == <<BerlinNear.lat, BerlinNear.lng>>
      d == <<Paris.lat, Paris.lng>>
  IN  IF p = q THEN 0
      ELSE IF {p, q} = {a, b} THEN 651
      ELSE IF {p, q} = {a, d} THEN 87746333
      ELSE IF {p, q} = {b, d} THEN 87746863
      ELSE 0

\* calculateSimpleDistance: the same formula, inlined, summed over the
\* consecutive pairs of a waypoint list
RECURSIVE SimpleSum(_, _)
SimpleSum(w, i) ==
  IF i >= Len(w) THEN 0
  ELSE haversineKm(w[i].lat, w[i].lng, w[i + 1].lat, w[i + 1].lng)
       + SimpleSum(w, i + 1)

calculateSimpleDistance(w) == IF Len(w) < 2 THEN 0 ELSE SimpleSum(w, 1)

\* distanceFromLineStringKm: coords are <<lon, lat>> pairs; a pair of
\* neighbours with a non-finite component adds nothing
RECURSIVE LineSum(_, _)
LineSum(c, i) ==
  IF i >= Len(c) THEN 0
  ELSE (IF /\ IsFinite(c[i][1]) /\ IsFinite(c[i][2])
           /\ IsFinite(c[i + 1][1]) /\ IsFinite(c[i + 1][2])
        THEN haversineKm(c[i][2], c[i][1], c[i + 1][2], c[i + 1][1])
        ELSE 0)
       + LineSum(c, i + 1)

distanceFromLineStringKm(coords) == LineSum(coords, 1)

\* dedupeConsecutive reading out[out.length] (undefined) as the last point:
\* every point is pushed
dedupeConsecutive_noLast(points) == points

\* dedupeConsecutive: push p unless the last pushed point has the same lat
\* and the same lng
RECURSIVE DedupeFrom(_, _, _)
DedupeFrom(points, i, out) ==
  IF i > Len(points) THEN out
  ELSE LET p == points[i]
           push == \/ Len(out) = 0
                   \/ StrictNeq(out[Len(out)].lat, p.lat)
                   \/ StrictNeq(out[Len(out)].lng, p.lng)
       IN  DedupeFrom(points, i + 1, IF push THEN Append(out, p) ELSE out)

dedupeConsecutive(points) == DedupeFrom(points, 1, <<>>)

\* -------------------------------------------------------------- formatting
\* n.toLocaleString("de-DE") for an integer n >= 0: groups of three digits
\* separated by "."
RECURSIVE toLocaleStringDE(_)
toLocaleStringDE(n) ==
  IF n < 1000 THEN ToString(n)
  ELSE LET r == n % 1000
           pad == IF r < 10 THEN "00" ELSE IF r < 100 THEN "0" ELSE ""
       IN  toLocaleStringDE(n \div 1000) \o "." \o pad \o ToString(r)

\* x.toFixed(1).replace(".", ",") for x = tenths / 10
toFixed1Comma(tenths) == ToString(tenths \div 10) \o "," \o ToString(tenths % 10)

\* mins >= 60 ? `${Math.floor(mins / 60)}h ${mins % 60}min` : `${mins}min`
FallbackDuration(mins) ==
  IF mins >= 60
  THEN ToString(mins \div 60) \o "h " \o ToString(mins % 60) \o "min"
  ELSE ToString(mins) \o "min"

\* durH / durM / durationStr of the success branch
durH(durationSeconds) == durationSeconds \div 3600

durM(durationSeconds) == RoundDiv(durationSeconds % 3600, 60)

durationStr(durationSeconds) ==
  IF durH(durationSeconds) > 0
  THEN ToString(durH(durationSeconds)) \o "h "
       \o ToString(durM(durationSeconds)) \o "min"
  ELSE ToString(durM(durationSeconds)) \o "min"

\* the placeholder instructions of the two fallback branches
FallbackInstructions(valid) ==
  [i \in 1..Len(valid) |->
     IF i = 1 THEN "1. Start in " \o valid[i].address
     ELSE IF i = Len(valid)
          THEN ToString(i) \o ". Ziel: " \o valid[i].address
          ELSE ToString(i) \o ". Weiter nach " \o valid[i].address]

\* segments.flatMap(segment => steps.map((step, i) => `${i + 1}. ...`))
RECURSIVE FlatMapSteps(_, _)
FlatMapSteps(segs, k) ==
  IF k > Len(segs) THEN <<>>
  ELSE (IF segs[k].stepsIsArray
        THEN [i \in 1..Len(segs[k].steps) |->
                ToString(i) \o ". " \o segs[k].steps[i]]
        ELSE <<>>)
       \o FlatMapSteps(segs, k + 1)

Instructions(segments) ==
  IF segments.isArray THEN FlatMapSteps(segments.segs, 1) ELSE <<>>

\* ---------------------------------------------------------------- requests
SeqsUpTo(S, n) == UNION {[1..k -> S] : k \in 0..n}

\* what the caller may put into lat / lng of one waypoint
CallerCoords ==
  {<<NaN, NaN>>, <<Berlin.lat, NaN>>}
  \cup {<<p.lat, p.lng>> : p \in Places}

Address(i) == "Adresse " \o ToString(i)

Waypoint(i, c) ==
  [id |-> i, address |-> Address(i), lat |-> c[1], lng |-> c[2]]

WaypointLists ==
  {[i \in 1..Len(cs) |-> Waypoint(i, cs[i])] :
     cs \in SeqsUpTo(CallerCoords, MaxWaypoints)}

Flags == {"true", "false", "undefined"}

Truthy(f) == f = "true"

RouteRequest(m, ok, isArr, wps, mode, tolls, hw, fast) ==
  [method |-> m, bodyParses |-> ok, waypointsIsArray |-> isArr,
   waypoints |-> wps, mode |-> mode, avoidTolls |-> tolls,
   avoidHighways |-> hw, fastestRoute |-> fast]

Requests ==
  {RouteRequest("OPTIONS", TRUE, TRUE, <<>>, "car", "undefined",
                "undefined", "undefined"),
   RouteRequest("POST", FALSE, FALSE, <<>>, "car", "undefined",
                "undefined", "undefined"),
   RouteRequest("POST", TRUE, FALSE, <<>>, "car", "undefined",
                "undefined", "undefined")}
  \cup {RouteRequest("POST", TRUE, TRUE, w, mode, "false", "false", "true") :
          w \in WaypointLists, mode \in {"car", "walking"}}

\* ------------------------------------------------- the geocoding service
\* one answer of the geocoder: the fetch or response.json() rejects, the
\* answer holds no match, or the first match with its lat / lon strings
GeocoderAnswers ==
  {[kind |-> "reject", lat |-> NonNumeric, lon |-> NonNumeric],
   [kind |-> "empty", lat |-> NonNumeric, lon |-> NonNumeric],
   [kind |-> "match", lat |-> NonNumeric, lon |-> NonNumeric],
   [kind |-> "match", lat |-> Berlin.lat, lon |-> Berlin.lng],
   [kind |-> "match", lat |-> Paris.lat, lon |-> Paris.lng]}

\* geocodeAddress without its try / catch: a rejected fetch rejects the
\* returned promise
geocodeAddress_noCatch(answer) ==
  IF answer.kind = "match"
  THEN [isNull |-> FALSE, rejects |-> FALSE,
        lat |-> parseFloat(answer.lat), lng |-> parseFloat(answer.lon)]
  ELSE [isNull |-> TRUE, rejects |-> answer.kind = "reject",
        lat |-> NaN, lng |-> NaN]

\* geocodeAddress: coords, or null; the try / catch turns a rejection into
\* null, so the returned promise never rejects
geocodeAddress(answer) ==
  IF answer.kind = "match"
  THEN [isNull |-> FALSE, rejects |-> FALSE,
        lat |-> parseFloat(answer.lat), lng |-> parseFloat(answer.lon)]
  ELSE [isNull |-> TRUE, rejects |-> FALSE, lat |-> NaN, lng |-> NaN]

\* HasCoords with || in place of &&
HasCoords_either(wp) == IsFinite(wp.lat) \/ IsFinite(wp.lng)

\* line 429: Number.isFinite(wp.lat) && Number.isFinite(wp.lng)
HasCoords(wp) == IsFinite(wp.lat) /\ IsFinite(wp.lng)

\* coords ? { ...wp, ...coords } : wp
Merge(wp, coords) ==
  IF coords.isNull THEN wp
  ELSE [wp EXCEPT !.lat = coords.lat, !.lng = coords.lng]

\* geocoded.filter(w => Number.isFinite(w.lat) && Number.isFinite(w.lng))
RECURSIVE FilterValid(_, _)
FilterValid(g, i) ==
  IF i > Len(g) THEN <<>>
  ELSE (IF IsFinite(g[i].lat) /\ IsFinite(g[i].lng) THEN <<g[i]>> ELSE <<>>)
       \o FilterValid(g, i + 1)

\* TooFewPoints with the length test off by one
TooFewPoints_offByOne(valid) ==
  \/ Len(valid) < 1
  \/ /\ Len(valid) = 2
     /\ almostEqual(valid[1].lat, valid[2].lat)
     /\ almostEqual(valid[1].lng, valid[2].lng)

\* the minimum-points check of lines 444-449
TooFewPoints(valid) ==
  \/ Len(valid) < 2
  \/ /\ Len(valid) = 2
     /\ almostEqual(valid[1].lat, valid[2].lat)
     /\ almostEqual(valid[1].lng, valid[2].lng)

\* ------------------------------------------------ the directions service
NoBody == [txt |-> "", parses |-> FALSE, errorMessage |-> "", message |-> ""]

NoFeature ==
  [present |-> FALSE, hasGeometry |-> FALSE, type |-> "",
   coordsIsArray |-> FALSE, coordinates |-> <<>>]

NoSummary == [distance |-> Absent, duration |-> Absent]

NoSegments == [isArray |-> FALSE, segs |-> <<>>]

\* bodies of a non-2xx answer: empty, plain text, JSON with error.message,
\* JSON with message
ErrorBodies ==
  {NoBody,
   [txt |-> "Bad Gateway", parses |-> FALSE, errorMessage |-> "",
    message |-> ""],
   [txt |-> "{\"error\":{\"message\":\"Route could not be found\"}}",
    parses |-> TRUE, errorMessage |-> "Route could not be found",
    message |-> ""],
   [txt |-> "{\"message\":\"Forbidden\"}", parses |-> TRUE,
    errorMessage |-> "", message |-> "Forbidden"]}

ErrorStatuses == {404, 500}

DirectionsAnswer(kind, status, body, bodyParses, feature, summary, segments) ==
  [kind |-> kind, status |-> status, body |-> body,
   bodyParses |-> bodyParses, feature |-> feature, summary |-> summary,
   segments |-> segments]

\* the fetch rejects (network error, timeout)
RejectAnswers ==
  {DirectionsAnswer("reject", 0, NoBody, FALSE, NoFeature, NoSummary,
                    NoSegments)}

\* a non-2xx answer
HttpErrorAnswers ==
  {DirectionsAnswer("http", st, b, FALSE, NoFeature, NoSummary, NoSegments) :
     st \in ErrorStatuses, b \in ErrorBodies}

\* a 2xx answer whose body orsRes.json() cannot parse
BadBodyAnswers ==
  {DirectionsAnswer("ok", 200, NoBody, FALSE, NoFeature, NoSummary,
                    NoSegments)}

LineString(coords) ==
  [present |-> TRUE, hasGeometry |-> TRUE, type |-> "LineString",
   coordsIsArray |-> TRUE, coordinates |-> coords]

\* first features that are not a LineString with a coordinates array
UnusableFeatures ==
  {NoFeature,
   [NoFeature EXCEPT !.present = TRUE],
   [NoFeature EXCEPT !.present = TRUE, !.hasGeometry = TRUE,
                     !.type = "Point", !.coordsIsArray = TRUE],
   [NoFeature EXCEPT !.present = TRUE, !.hasGeometry = TRUE,
                     !.type = "LineString"]}

\* [lon, lat] pairs a geometry may hold; the last one is not finite
LonLatPairs == {<<p.lng, p.lat>> : p \in Places} \cup {<<NaN, NaN>>}

Segments ==
  {NoSegments,
   [isArray |-> TRUE,
    segs |-> <<[stepsIsArray |-> TRUE,
                steps |-> <<"Head north", "Turn left">>],
               [stepsIsArray |-> TRUE, steps |-> <<"Arrive">>]>>]}

OkAnswers(features, distances, durations, segments) ==
  {DirectionsAnswer("ok", 200, NoBody, TRUE, f,
                    [distance |-> dist, duration |-> dur], sg) :
     f \in features, dist \in distances, dur \in durations, sg \in segments}

\* the answers of the request pipeline's specification: every kind of
\* answer, with one geometry of each length
PipelineAnswers ==
  RejectAnswers \cup HttpErrorAnswers \cup BadBodyAnswers
  \cup OkAnswers({NoFeature}
                 \cup {LineString([i \in 1..k |->
                                     IF i % 2 = 1
                                     THEN <<Berlin.lng, Berlin.lat>>
                                     ELSE <<Paris.lng, Paris.lat>>]) :
                         k \in 0..MaxCoords},
                 {Absent}, {Absent}, {NoSegments})

\* the answers of the reconciliation specification: every geometry up to
\* MaxCoords points, with every summary
ReconcileAnswers ==
  RejectAnswers
  \cup {a \in HttpErrorAnswers : a.status = 500 /\ a.body = NoBody}
  \cup BadBodyAnswers
  \cup OkAnswers(UnusableFeatures
                 \cup {LineString(c) : c \in SeqsUpTo(LonLatPairs, MaxCoords)},
                 {Absent, 0, 5000}, {Absent, 0 - 60, 0, 3599, 7200}, Segments)

\* j?.error?.message || j?.message || txt, or txt when JSON.parse throws
errMsg(body) ==
  IF body.parses
  THEN IF body.errorMessage # "" THEN body.errorMessage
       ELSE IF body.message # "" THEN body.message
       ELSE body.txt
  ELSE body.txt

\* ---------------------------------------------------------------- responses
NoResponse ==
  [kind |-> "none", status |-> 0, error |-> "", fallback |-> FALSE,
   errorMessage |-> "", geometry |-> [shape |-> "array", coords |-> <<>>],
   waypoints |-> <<>>, distance |-> "", duration |-> "",
   instructions |-> <<>>, distanceMeters |-> Absent,
   durationSeconds |-> Absent, reason |-> ""]

\* new Response(null, { headers: corsHeaders })
PreflightResponse == [NoResponse EXCEPT !.kind = "preflight", !.status = 200]

\* the catch block: { error: error?.message ?? ... } with status 500
ErrorResponse(message) ==
  [NoResponse EXCEPT !.kind = "error", !.status = 500, !.error = message]

\* LatLngArray with the pair in service order [lng, lat]
LatLngArray_swapped(valid) ==
  [shape |-> "array",
   coords |-> [i \in 1..Len(valid) |-> <<valid[i].lng, valid[i].lat>>]]

\* valid.map(w => [w.lat, w.lng])
LatLngArray(valid) ==
  [shape |-> "array",
   coords |-> [i \in 1..Len(valid) |-> <<valid[i].lat, valid[i].lng>>]]

\* the two "too few points" responses
TooFewResponse(message, geometry, waypoints) ==
  [NoResponse EXCEPT !.kind = "route", !.status = 200, !.fallback = TRUE,
                     !.errorMessage = message, !.geometry = geometry,
                     !.waypoints = waypoints, !.distance = "0 km",
                     !.duration = "0min"]

\* the straight-line response of the !orsRes.ok and no-feature branches
FallbackResponse(valid, distance, message, reason) ==
  [NoResponse EXCEPT
     !.kind = "route", !.status = 200, !.fallback = TRUE,
     !.errorMessage = message, !.geometry = LatLngArray(valid),
     !.waypoints = valid, !.distance = distance,
     !.duration = FallbackDuration(
                    RoundDiv(calculateSimpleDistance(valid), 100000)),
     !.instructions = FallbackInstructions(valid), !.reason = reason]

\* -------------------------------------------------------------------- state
VARIABLES
  request,      \* the parsed request (method, body, waypoints, mode, flags)
  orsApiKey,    \* TRUE iff OPENROUTE_SERVICE_API_KEY is set
  pc,           \* "start", "geocoding", "directions" or "done"
  geo,          \* per waypoint: the slot of Promise.all and its geocoder call
  filtered,     \* valid before dedupeConsecutive (line 436)
  valid,        \* valid after dedupeConsecutive (line 441)
  orsRequest,   \* the request sent to the directions service
  orsAnswer,    \* what the directions service answered (orsRes / data)
  response,     \* the response of the handler
  completionOrder, \* the waypoints whose geocoder call completed, in the
                   \* order of completion (kept by SpecOrder only)
  routeData,       \* Index.tsx: the route the page shows, or null
  fallbackNotice,  \* RouteSidebar.tsx: the notice shown, "" for null
  isCalculating,   \* Index.tsx: a calculateRoute invocation is under way
  polyline,        \* MapContainer.tsx: the points of the polyline on the
                   \* map, <<>> when none is drawn
  waypoints,       \* Index.tsx: the waypoint list of the page
  toast,           \* the titles of the toasts the latest calculateRoute
                   \* invocation has shown
  now              \* Date.now(), in ticks

vars ==
  <<request, orsApiKey, pc, geo, filtered, valid, orsRequest, orsAnswer,
    response, completionOrder, routeData, fallbackNotice, isCalculating,
    polyline, waypoints, toast, now>>

\* the state of the page, which the edge function never touches
ui ==
  <<routeData, fallbackNotice, isCalculating, polyline, waypoints, toast,
    now>>

NoAnswer ==
  DirectionsAnswer("none", 0, NoBody, FALSE, NoFeature, NoSummary, NoSegments)

NoOrsRequest ==
  [sent |-> FALSE, profile |-> "", coordinates |-> <<>>, preference |-> "",
   hasOptions |-> FALSE, avoid_features |-> <<>>]

\* Index.tsx line 29: useState<RouteData | null>(null)
NoRouteData ==
  [present |-> FALSE, distance |-> "", duration |-> "", instructions |-> <<>>,
   geometry |-> [shape |-> "array", coords |-> <<>>], waypoints |-> <<>>,
   distanceMeters |-> Absent, distanceKm |-> Absent,
   durationSeconds |-> Absent]

\* Index.tsx lines 25-28: the waypoints of the page, start and end, with an
\* address each and no coordinates
PageWaypoints ==
  <<[id |-> "start", address |-> "Berlin, Deutschland"],
    [id |-> "end", address |-> "Paris, Frankreich"]>>

InitWith(requests) ==
  /\ request \in requests
  /\ orsApiKey \in BOOLEAN
  /\ pc = "start"
  /\ geo = <<>>
  /\ filtered = <<>>
  /\ valid = <<>>
  /\ orsRequest = NoOrsRequest
  /\ orsAnswer = NoAnswer
  /\ response = NoResponse
  /\ completionOrder = <<>>
  /\ routeData = NoRouteData
  /\ fallbackNotice = ""
  /\ isCalculating = FALSE
  /\ polyline = <<>>
  /\ waypoints = PageWaypoints
  /\ toast = <<>>
  /\ now = 0

Init == InitWith(Requests)

\* return new Response(...) / the catch block: the handler is finished
Respond(r) ==
  /\ pc' = "done"
  /\ response' = r

\* ------------------------------------------------------------------ handler
\* lines 395-397: CORS preflight
Preflight ==
  /\ pc = "start"
  /\ request.method = "OPTIONS"
  /\ Respond(PreflightResponse)
  /\ UNCHANGED <<ui, completionOrder>>
  /\ UNCHANGED <<request, orsApiKey, geo, filtered, valid, orsRequest, orsAnswer>>

\* BodyFault with req.json() in front of the try block: the rejection
\* leaves the handler, and the runtime answers in its place
BodyFault_outsideTry ==
  /\ pc = "start"
  /\ request.method # "OPTIONS"
  /\ ~request.bodyParses
  /\ Respond([NoResponse EXCEPT !.kind = "unhandled", !.status = 500])
  /\ UNCHANGED <<ui, completionOrder>>
  /\ UNCHANGED <<request, orsApiKey, geo, filtered, valid, orsRequest, orsAnswer>>

\* lines 400-406 and 646-657: req.json() throws
BodyFault ==
  /\ pc = "start"
  /\ request.method # "OPTIONS"
  /\ ~request.bodyParses
  /\ Respond(ErrorResponse("Unexpected end of JSON input"))
  /\ UNCHANGED <<ui, completionOrder>>
  /\ UNCHANGED <<request, orsApiKey, geo, filtered, valid, orsRequest, orsAnswer>>

\* TooFewWaypoints with the credential check moved in front of it
TooFewWaypoints_afterKey ==
  /\ pc = "start"
  /\ request.method # "OPTIONS"
  /\ request.bodyParses
  /\ ~request.waypointsIsArray \/ Len(request.waypoints) < 2
  /\ IF orsApiKey
     THEN Respond(TooFewResponse(
            "Mindestens 2 gueltige Adressen erforderlich",
            [shape |-> "array", coords |-> <<>>], request.waypoints))
     ELSE Respond(ErrorResponse("OpenRouteService API key not configured"))
  /\ UNCHANGED <<ui, completionOrder>>
  /\ UNCHANGED <<request, orsApiKey, geo, filtered, valid, orsRequest,
                 orsAnswer>>

\* lines 408-421: waypoints is no array or has fewer than 2 entries
TooFewWaypoints ==
  /\ pc = "start"
  /\ request.method # "OPTIONS"
  /\ request.bodyParses
  /\ ~request.waypointsIsArray \/ Len(request.waypoints) < 2
  /\ Respond(TooFewResponse("Mindestens 2 gueltige Adressen erforderlich",
                            [shape |-> "array", coords |-> <<>>],
                            request.waypoints))
  /\ UNCHANGED <<ui, completionOrder>>
  /\ UNCHANGED <<request, orsApiKey, geo, filtered, valid, orsRequest, orsAnswer>>

EnoughWaypoints ==
  /\ pc = "start"
  /\ request.method # "OPTIONS"
  /\ request.bodyParses
  /\ request.waypointsIsArray
  /\ Len(request.waypoints) >= 2

\* KeyMissing returning a fallback object, as the waypoint count check does,
\* where the source throws
KeyMissing_fallback ==
  /\ EnoughWaypoints
  /\ ~orsApiKey
  /\ Respond(TooFewResponse("OpenRouteService API key not configured",
                            [shape |-> "array", coords |-> <<>>],
                            request.waypoints))
  /\ UNCHANGED <<ui, completionOrder>>
  /\ UNCHANGED <<request, orsApiKey, geo, filtered, valid, orsRequest, orsAnswer>>

\* lines 423-424 and 646-657: the credential is not configured
KeyMissing ==
  /\ EnoughWaypoints
  /\ ~orsApiKey
  /\ Respond(ErrorResponse("OpenRouteService API key not configured"))
  /\ UNCHANGED <<ui, completionOrder>>
  /\ UNCHANGED <<request, orsApiKey, geo, filtered, valid, orsRequest, orsAnswer>>

\* lines 427-433: waypoints.map(async wp => ...) runs every callback up to
\* its first await: a waypoint with finite lat and lng is returned as it is,
\* for any other waypoint geocodeAddress issues its fetch
StartGeocoding ==
  /\ EnoughWaypoints
  /\ orsApiKey
  /\ pc' = "geocoding"
  /\ geo' = [i \in 1..Len(request.waypoints) |->
               IF HasCoords(request.waypoints[i])
               THEN [state |-> "own", answer |-> "none", calls |-> 0,
                     wp |-> request.waypoints[i]]
               ELSE [state |-> "pending", answer |-> "none", calls |-> 1,
                     wp |-> request.waypoints[i]]]
  /\ UNCHANGED <<ui, completionOrder>>
  /\ UNCHANGED <<request, orsApiKey, filtered, valid, orsRequest, orsAnswer,
                 response>>

\* lines 430-431: the geocoder call of waypoint i completes
GeocodeCompletes(i) ==
  /\ pc = "geocoding"
  /\ i \in 1..Len(geo)
  /\ geo[i].state = "pending"
  /\ \E answer \in GeocoderAnswers :
       LET coords == geocodeAddress(answer)
       IN  IF coords.rejects
           THEN \* Promise.all rejects, the await throws into the catch block
                /\ geo' = [geo EXCEPT ![i].state = "done",
                                      ![i].answer = answer.kind]
                /\ Respond(ErrorResponse("geocoding failed"))
           ELSE /\ geo' = [geo EXCEPT ![i].state = "done",
                                      ![i].answer = answer.kind,
                                      ![i].wp = Merge(geo[i].wp, coords)]
                /\ UNCHANGED <<pc, response>>
  /\ UNCHANGED ui
  /\ UNCHANGED <<request, orsApiKey, filtered, valid, orsRequest, orsAnswer>>

GeocodeReturn(i) ==
  /\ GeocodeCompletes(i)
  /\ UNCHANGED completionOrder

\* the same step, with the completion written down
GeocodeReturnObserved(i) ==
  /\ GeocodeCompletes(i)
  /\ completionOrder' = Append(completionOrder, i)

\* AllGeocoded with Promise.race in place of Promise.all: the await resumes
\* with the first promise that is settled
AllGeocoded_first ==
  /\ pc = "geocoding"
  /\ \E i \in 1..Len(geo) : geo[i].state \in {"own", "done"}

\* the await of line 427 resumes once every promise of the array is settled
AllGeocoded ==
  /\ pc = "geocoding"
  /\ \A i \in 1..Len(geo) : geo[i].state \in {"own", "done"}

\* Geocoded with every callback pushing its result to one list when it is
\* through: the waypoints with coordinates at once, in request order, the
\* others when their geocoder call completes
Geocoded_completionOrder ==
  LET own == SelectSeq([i \in 1..Len(geo) |-> i],
                       LAMBDA i : geo[i].state = "own")
      order == own \o completionOrder
  IN  [k \in 1..Len(order) |-> geo[order[k]].wp]

\* line 427: Promise.all resolves to the results in the order of the array
\* of promises, that is, of request.waypoints
Geocoded == [i \in 1..Len(geo) |-> geo[i].wp]

\* lines 436-463: filter, dedupe, and the minimum-points check fails
InsufficientPoints ==
  /\ AllGeocoded
  /\ LET f == FilterValid(Geocoded, 1)
         v == dedupeConsecutive(f)
     IN  /\ TooFewPoints(v)
         /\ filtered' = f
         /\ valid' = v
         /\ Respond(TooFewResponse(
              "Start und Ziel duerfen nicht identisch sein / zu wenig unterschiedliche Punkte haben",
              LatLngArray(v), v))
  /\ UNCHANGED <<ui, completionOrder>>
  /\ UNCHANGED <<request, orsApiKey, geo, orsRequest, orsAnswer>>

\* lines 466-473: profile and options
Profile(mode) == IF mode = "walking" THEN "foot-walking" ELSE "driving-car"

\* AvoidFeatures without the test of the profile
AvoidFeatures_anyProfile(req) ==
  (IF Truthy(req.avoidTolls) THEN <<"tollways">> ELSE <<>>)
  \o (IF Truthy(req.avoidHighways) THEN <<"highways">> ELSE <<>>)

\* lines 466-473: options.avoid_features, for the driving profile only
AvoidFeatures(req) ==
  IF Profile(req.mode) = "driving-car"
  THEN (IF Truthy(req.avoidTolls) THEN <<"tollways">> ELSE <<>>)
       \o (IF Truthy(req.avoidHighways) THEN <<"highways">> ELSE <<>>)
  ELSE <<>>

\* OrsRequestBody with the coordinates in the order of the fallback
\* geometry, [lat, lng]
OrsRequestBody_latLng(req, v) ==
  [sent |-> TRUE,
   profile |-> Profile(req.mode),
   coordinates |-> [i \in 1..Len(v) |-> <<v[i].lat, v[i].lng>>],
   preference |-> IF Truthy(req.fastestRoute) THEN "fastest" ELSE "shortest",
   hasOptions |-> Len(AvoidFeatures(req)) > 0,
   avoid_features |-> AvoidFeatures(req)]

\* lines 476-493: the body of the POST to the directions service
OrsRequestBody(req, v) ==
  [sent |-> TRUE,
   profile |-> Profile(req.mode),
   coordinates |-> [i \in 1..Len(v) |-> <<v[i].lng, v[i].lat>>],
   preference |-> IF Truthy(req.fastestRoute) THEN "fastest" ELSE "shortest",
   hasOptions |-> Len(AvoidFeatures(req)) > 0,
   avoid_features |-> AvoidFeatures(req)]

\* CallDirections with the two steps of the sanitizer exchanged: dedupe
\* first, then the filter
CallDirections_dedupeFirst ==
  /\ AllGeocoded
  /\ LET f == dedupeConsecutive(Geocoded)
         v == FilterValid(f, 1)
     IN  /\ ~TooFewPoints(v)
         /\ filtered' = f
         /\ valid' = v
         /\ orsRequest' = OrsRequestBody(request, v)
  /\ pc' = "directions"
  /\ UNCHANGED <<ui, completionOrder>>
  /\ UNCHANGED <<request, orsApiKey, geo, orsAnswer, response>>

\* lines 436-493: filter, dedupe, the minimum-points check passes and the
\* directions request is sent
CallDirections ==
  /\ AllGeocoded
  /\ LET f == FilterValid(Geocoded, 1)
         v == dedupeConsecutive(f)
     IN  /\ ~TooFewPoints(v)
         /\ filtered' = f
         /\ valid' = v
         /\ orsRequest' = OrsRequestBody(request, v)
  /\ pc' = "directions"
  /\ UNCHANGED <<ui, completionOrder>>
  /\ UNCHANGED <<request, orsApiKey, geo, orsAnswer, response>>

\* lines 477-493 and 646-657: the fetch rejects; nothing around it catches,
\* so the handler's catch block answers
DirectionsReject(answers) ==
  /\ pc = "directions"
  /\ \E a \in answers :
       /\ a.kind = "reject"
       /\ orsAnswer' = a
       /\ Respond(ErrorResponse("error sending request"))
  /\ UNCHANGED <<ui, completionOrder>>
  /\ UNCHANGED <<request, orsApiKey, geo, filtered, valid, orsRequest>>

\* lines 495-537: a non-2xx answer gives the straight-line fallback
HttpErrorFallback(v, a) ==
  FallbackResponse(
    v,
    toLocaleStringDE(RoundDiv(calculateSimpleDistance(v), 100000)) \o " km",
    "ORS HTTP " \o ToString(a.status) \o ": " \o errMsg(a.body),
    "http_error")

DirectionsHttpError(answers) ==
  /\ pc = "directions"
  /\ \E a \in answers :
       /\ a.kind = "http"
       /\ orsAnswer' = a
       /\ Respond(HttpErrorFallback(valid, a))
  /\ UNCHANGED <<ui, completionOrder>>
  /\ UNCHANGED <<request, orsApiKey, geo, filtered, valid, orsRequest>>

\* lines 539 and 646-657: orsRes.json() throws on a 2xx answer
DirectionsBadBody(answers) ==
  /\ pc = "directions"
  /\ \E a \in answers :
       /\ a.kind = "ok"
       /\ ~a.bodyParses
       /\ orsAnswer' = a
       /\ Respond(ErrorResponse("Unexpected end of JSON input"))
  /\ UNCHANGED <<ui, completionOrder>>
  /\ UNCHANGED <<request, orsApiKey, geo, filtered, valid, orsRequest>>

\* lines 542-547: the first feature is not usable
NoUsableFeature(feature) ==
  \/ ~feature.present
  \/ ~feature.hasGeometry
  \/ feature.type # "LineString"
  \/ ~feature.coordsIsArray

\* lines 548-580: the no-feature fallback
NoFeatureFallback(v) ==
  FallbackResponse(
    v,
    toFixed1Comma(RoundDiv(calculateSimpleDistance(v), 10000)) \o " km",
    "ORS lieferte keine Route zwischen den Punkten.",
    "no_feature")

DirectionsNoFeature(answers) ==
  /\ pc = "directions"
  /\ \E a \in answers :
       /\ a.kind = "ok"
       /\ a.bodyParses
       /\ NoUsableFeature(a.feature)
       /\ orsAnswer' = a
       /\ Respond(NoFeatureFallback(valid))
  /\ UNCHANGED <<ui, completionOrder>>
  /\ UNCHANGED <<request, orsApiKey, geo, filtered, valid, orsRequest>>

\* DistanceMeters taking the service's summary.distance when it is a
\* non-zero number: Number(summary.distance) || <geometry sum>
DistanceMeters_fromSummary(feature, summary) ==
  IF IsFinite(NumberOf(summary.distance)) /\ NumberOf(summary.distance) # 0
  THEN NumberOf(summary.distance)
  ELSE RoundDiv(distanceFromLineStringKm(feature.coordinates), 100)

\* lines 587-592: Math.round(distanceFromLineStringKm(coordinates) * 1000)
DistanceMeters(feature, summary) ==
  RoundDiv(distanceFromLineStringKm(feature.coordinates), 100)

\* line 598, in tenths of a km/h
SpeedWalking == 45
SpeedDriving == 600

speedKmh(profile) ==
  IF profile = "foot-walking" THEN SpeedWalking ELSE SpeedDriving

\* line 599: Math.round((km / speedKmh) * 3600) with km = distanceMeters / 1000
EstimateSeconds(distanceMeters, profile) ==
  RoundDiv(distanceMeters * 36, speedKmh(profile))

\* DurationSeconds without the estimate: Number(summary.duration) || 0
DurationSeconds_noEstimate(summary, distanceMeters, profile) ==
  LET d == NumberOf(summary.duration)
  IN  IF ~IsFinite(d) THEN 0 ELSE d

\* lines 595-600
DurationSeconds(summary, distanceMeters, profile) ==
  LET d == NumberOf(summary.duration)
  IN  IF ~IsFinite(d) \/ d <= 0
      THEN EstimateSeconds(distanceMeters, profile)
      ELSE d

\* SuccessResponse with the geometry turned into the [lat, lng] array the
\* fallback branches return
SuccessResponse_latLngGeometry(v, a, profile) ==
  LET dm == DistanceMeters(a.feature, a.summary)
      ds == DurationSeconds(a.summary, dm, profile)
      c == a.feature.coordinates
  IN  [NoResponse EXCEPT
         !.kind = "route", !.status = 200, !.fallback = FALSE,
         !.geometry = [shape |-> "array",
                       coords |-> [i \in 1..Len(c) |-> <<c[i][2], c[i][1]>>]],
         !.waypoints = v,
         !.distance = toFixed1Comma(RoundDiv(dm, 100)) \o " km",
         !.duration = durationStr(ds),
         !.instructions = Instructions(a.segments),
         !.distanceMeters = dm,
         !.durationSeconds = ds]

\* lines 584-641: the result of the success branch
SuccessResponse(v, a, profile) ==
  LET dm == DistanceMeters(a.feature, a.summary)
      ds == DurationSeconds(a.summary, dm, profile)
  IN  [NoResponse EXCEPT
         !.kind = "route", !.status = 200, !.fallback = FALSE,
         !.geometry = [shape |-> "LineString",
                       coords |-> a.feature.coordinates],
         !.waypoints = v,
         !.distance = toFixed1Comma(RoundDiv(dm, 100)) \o " km",
         !.duration = durationStr(ds),
         !.instructions = Instructions(a.segments),
         !.distanceMeters = dm,
         !.durationSeconds = ds]

DirectionsSuccess(answers) ==
  /\ pc = "directions"
  /\ \E a \in answers :
       /\ a.kind = "ok"
       /\ a.bodyParses
       /\ ~NoUsableFeature(a.feature)
       /\ orsAnswer' = a
       /\ Respond(SuccessResponse(valid, a, orsRequest.profile))
  /\ UNCHANGED <<ui, completionOrder>>
  /\ UNCHANGED <<request, orsApiKey, geo, filtered, valid, orsRequest>>

\* lines 327-351: the fetch of geocodeAddress carries no timeout and no
\* abort signal; when the geocoder never answers, the promise of waypoint i
\* stays pending for ever
GeocoderNeverAnswers(i) ==
  /\ pc = "geocoding"
  /\ i \in 1..Len(geo)
  /\ geo[i].state = "pending"
  /\ geo' = [geo EXCEPT ![i].state = "lost"]
  /\ UNCHANGED <<ui, completionOrder>>
  /\ UNCHANGED <<request, orsApiKey, pc, filtered, valid, orsRequest,
                 orsAnswer, response>>

\* lines 477-493: nor does the fetch of the directions service; when the
\* service never answers, the handler stays at this await for ever
DirectionsNeverAnswers ==
  /\ pc = "directions"
  /\ pc' = "directions-lost"
  /\ UNCHANGED <<ui, completionOrder>>
  /\ UNCHANGED <<request, orsApiKey, geo, filtered, valid, orsRequest,
                 orsAnswer, response>>

\* ---------------------------------------------------------------- map layer
\* MapContainer.tsx lines 217-222 and 226: the entries that are pairs of
\* finite numbers
RECURSIVE FinitePairs(_, _)
FinitePairs(c, i) ==
  IF i > Len(c) THEN <<>>
  ELSE (IF IsFinite(c[i][1]) /\ IsFinite(c[i][2]) THEN <<c[i]>> ELSE <<>>)
       \o FinitePairs(c, i + 1)

\* routeCoords without the .map(([lon, lat]) => [lat, lon]) of line 227
routeCoords_noSwap(geometry) == FinitePairs(geometry.coords, 1)

\* MapContainer.tsx lines 213-228: an array is taken as [lat, lng] pairs, a
\* LineString has every pair turned from [lon, lat] to [lat, lon]
routeCoords(geometry) ==
  IF geometry.shape = "array" THEN FinitePairs(geometry.coords, 1)
  ELSE IF geometry.shape = "LineString"
       THEN LET f == FinitePairs(geometry.coords, 1)
            IN  [k \in 1..Len(f) |-> <<f[k][2], f[k][1]>>]
       ELSE <<>>

\* MapContainer.tsx lines 164-235: the effect removes the old polyline and
\* draws one when routeData has a geometry with at least 2 usable points
Polyline(rd) ==
  IF rd.present /\ Len(routeCoords(rd.geometry)) >= 2
  THEN routeCoords(rd.geometry)
  ELSE <<>>

\* ------------------------------------------------------------------ sidebar
\* RouteSidebar.tsx lines 131-134 and 170-172: the body of the invocation,
\* the waypoints of the page (id and address, no coordinates) with the
\* initial mode and flags of the sidebar
PageRequest ==
  RouteRequest("POST", TRUE, TRUE,
               [i \in 1..Len(waypoints) |->
                  [id |-> waypoints[i].id, address |-> waypoints[i].address,
                   lat |-> NaN, lng |-> NaN]],
               "car", "false", "false", "true")

\* no request has reached the edge function
NoRequest ==
  RouteRequest("NONE", FALSE, FALSE, <<>>, "car", "undefined", "undefined",
               "undefined")

\* kmFromGeometry, branch B: the legs of an array of [lat, lng] pairs
RECURSIVE ArraySum(_, _)
ArraySum(c, i) ==
  IF i >= Len(c) THEN 0
  ELSE (IF /\ IsFinite(c[i][1]) /\ IsFinite(c[i][2])
           /\ IsFinite(c[i + 1][1]) /\ IsFinite(c[i + 1][2])
        THEN haversineKm(c[i][1], c[i][2], c[i + 1][1], c[i + 1][2])
        ELSE 0)
       + ArraySum(c, i + 1)

\* RouteSidebar.tsx lines 84-113, in centimetres; branch A sums the legs of
\* a LineString as distanceFromLineStringKm does
kmFromGeometry(geometry) ==
  IF geometry.shape = "LineString" THEN LineSum(geometry.coords, 1)
  ELSE ArraySum(geometry.coords, 1)

\* RouteSidebar.tsx lines 116-121: formatKm of a distance in centimetres
formatKm(cm) ==
  IF cm = Absent \/ cm <= 0 THEN "0,0 km"
  ELSE IF cm >= 1000000 THEN ToString(RoundDiv(cm, 100000)) \o " km"
  ELSE LET tenths == RoundDiv(cm, 10000)
       IN  (IF tenths % 10 = 0 THEN ToString(tenths \div 10)
            ELSE ToString(tenths \div 10) \o "," \o ToString(tenths % 10))
           \o " km"

\* lines 207-211: the distance string is empty or starts with "0"; of the
\* strings the edge function builds these are "0 km" and "0,0 km" to
\* "0,9 km"
looksZero(distanceStr) ==
  distanceStr \in {"", "0 km"} \cup {toFixed1Comma(t) \o " km" : t \in 0..9}

\* lines 214-217: data.distanceKm (distanceMeters / 1000) when the response
\* carries it, else the length of the geometry
ensuredKm(data) ==
  IF data.distanceMeters # Absent THEN data.distanceMeters * 100
  ELSE kmFromGeometry(data.geometry)

\* lines 219-221: the distance of the response is replaced
distanceCorrected(data) ==
  /\ looksZero(data.distance)
  /\ ensuredKm(data) > 0
  /\ formatKm(ensuredKm(data)) # "0,0 km"

\* lines 206-227
distanceStr(data) ==
  IF distanceCorrected(data) THEN formatKm(ensuredKm(data))
  ELSE data.distance

\* lines 229-238: the object given to setRouteData
RouteDataOf(data) ==
  [present |-> TRUE, distance |-> distanceStr(data),
   duration |-> data.duration, instructions |-> data.instructions,
   geometry |-> data.geometry, waypoints |-> data.waypoints,
   distanceMeters |-> data.distanceMeters, distanceKm |-> ensuredKm(data),
   durationSeconds |-> data.durationSeconds]

\* waypoints.find((w) => w.id === id)?.address, "" when there is none
RECURSIVE FindAddress(_, _, _)
FindAddress(wps, id, i) ==
  IF i > Len(wps) THEN ""
  ELSE IF wps[i].id = id THEN wps[i].address
  ELSE FindAddress(wps, id, i + 1)

\* RouteSidebar.tsx lines 157-172: calculateRoute up to the await of the
\* invocation.  The button is disabled while isCalculating (line 361).
\* With an empty start or end address the function shows a toast and
\* returns (lines 158-163); otherwise the request starts the edge function
\* afresh.
calculateRoute ==
  /\ ~isCalculating
  /\ pc = "idle"
  /\ IF FindAddress(waypoints, "start", 1) = ""
        \/ FindAddress(waypoints, "end", 1) = ""
     THEN /\ toast' = <<"Bitte geben Sie Start- und Zieladresse ein.">>
          /\ UNCHANGED <<isCalculating, fallbackNotice, request, pc, geo,
                         filtered, valid, orsRequest, orsAnswer, response>>
     ELSE /\ isCalculating' = TRUE
          /\ fallbackNotice' = ""
          /\ toast' = <<>>
          /\ request' = PageRequest
          /\ pc' = "start"
          /\ geo' = <<>>
          /\ filtered' = <<>>
          /\ valid' = <<>>
          /\ orsRequest' = NoOrsRequest
          /\ orsAnswer' = NoAnswer
          /\ response' = NoResponse
  /\ UNCHANGED <<orsApiKey, completionOrder, routeData, polyline, waypoints,
                 now>>

\* the notice set with a fallback response, kept as it is otherwise
NoticeAfter(data) ==
  IF data.fallback THEN data.errorMessage ELSE fallbackNotice

\* lines 174-227: the toasts shown with a route response
RouteToasts(data) ==
  <<"Debug Route">>
  \o (IF data.fallback THEN <<"Routenberechnung unvollstaendig">>
      ELSE <<"Route berechnet">>)
  \o (IF distanceCorrected(data) THEN <<"Entfernung korrigiert">> ELSE <<>>)

\* InvokeReturns with setIsCalculating(false) as the last statement of the
\* try block in place of the finally block
InvokeReturns_noFinally ==
  /\ isCalculating
  /\ pc = "done"
  /\ IF response.kind = "route"
     THEN /\ fallbackNotice' = NoticeAfter(response)
          /\ toast' = RouteToasts(response)
          /\ routeData' = RouteDataOf(response)
          /\ polyline' = Polyline(RouteDataOf(response))
          /\ isCalculating' = FALSE
     ELSE /\ toast' = <<"Fehler bei der Routenberechnung">>
          /\ UNCHANGED <<fallbackNotice, routeData, polyline, isCalculating>>
  /\ pc' = "idle"
  /\ UNCHANGED <<request, orsApiKey, geo, filtered, valid, orsRequest,
                 orsAnswer, response, completionOrder, waypoints, now>>

\* RouteSidebar.tsx lines 173-248: the invocation returns.  A response
\* with status 500 gives data = null: reading data.distance for the debug
\* toast throws, the catch block shows a toast and neither routeData nor
\* the notice is set.  A route response sets the notice when it is a
\* fallback and then routeData; the effect of the map draws the new route.
\* The finally block resets isCalculating on every path.
InvokeReturns ==
  /\ isCalculating
  /\ pc = "done"
  /\ IF response.kind = "route"
     THEN /\ fallbackNotice' = NoticeAfter(response)
          /\ toast' = RouteToasts(response)
          /\ routeData' = RouteDataOf(response)
          /\ polyline' = Polyline(RouteDataOf(response))
     ELSE /\ toast' = <<"Fehler bei der Routenberechnung">>
          /\ UNCHANGED <<fallbackNotice, routeData, polyline>>
  /\ isCalculating' = FALSE
  /\ pc' = "idle"
  /\ UNCHANGED <<request, orsApiKey, geo, filtered, valid, orsRequest,
                 orsAnswer, response, completionOrder, waypoints, now>>

\* lines 169-172 and 239-248: the invocation settles without a response of
\* the edge function (the request or its answer is lost, or the relay
\* gives up): invoke resolves with data = null and an error, the catch
\* block shows a toast and the finally block resets isCalculating
InvokeFails ==
  /\ isCalculating
  /\ pc # "idle"
  /\ toast' = <<"Fehler bei der Routenberechnung">>
  /\ isCalculating' = FALSE
  /\ pc' = "idle"
  /\ UNCHANGED <<request, orsApiKey, geo, filtered, valid, orsRequest,
                 orsAnswer, response, completionOrder, routeData,
                 fallbackNotice, polyline, waypoints, now>>

\* the handler variables, which the list operations of the page leave alone
handler ==
  <<request, orsApiKey, pc, geo, filtered, valid, orsRequest, orsAnswer,
    response, completionOrder>>

\* what an address field of the sidebar may hold
PageAddresses == {"", "Berlin, Deutschland"}

\* RouteSidebar.tsx lines 153-155, called by onChange of the address field
updateWaypointAddress(id, address) ==
  /\ \E i \in 1..Len(waypoints) : waypoints[i].id = id
  /\ waypoints' =
       [i \in 1..Len(waypoints) |->
          IF waypoints[i].id = id
          THEN [waypoints[i] EXCEPT !.address = address]
          ELSE waypoints[i]]
  /\ UNCHANGED <<routeData, fallbackNotice, isCalculating, polyline, toast,
                 now>>
  /\ UNCHANGED handler

\* addWaypoint pushing the new entry at the end of the list
addWaypoint_append ==
  /\ Len(waypoints) < MaxPageWaypoints
  /\ waypoints' =
       waypoints \o <<[id |-> "waypoint-" \o ToString(now), address |-> ""]>>
  /\ UNCHANGED <<routeData, fallbackNotice, isCalculating, polyline, toast,
                 now>>
  /\ UNCHANGED handler

\* RouteSidebar.tsx lines 137-147: splice(waypoints.length - 1, 0, new)
\* puts the new entry, whose id is made of the time of the click, before
\* the last one (into an empty list it is simply put)
addWaypoint ==
  /\ Len(waypoints) < MaxPageWaypoints
  /\ waypoints' =
       LET new == [id |-> "waypoint-" \o ToString(now), address |-> ""]
       IN  IF Len(waypoints) = 0 THEN <<new>>
           ELSE SubSeq(waypoints, 1, Len(waypoints) - 1) \o <<new>>
                \o <<waypoints[Len(waypoints)]>>
  /\ UNCHANGED <<routeData, fallbackNotice, isCalculating, polyline, toast,
                 now>>
  /\ UNCHANGED handler

\* lines 149-151, called by the remove button, which lines 303-312 render
\* for the entries that are neither first nor last: every entry with this
\* id is filtered out
removeWaypoint(id) ==
  /\ \E i \in 2..(Len(waypoints) - 1) : waypoints[i].id = id
  /\ waypoints' = SelectSeq(waypoints, LAMBDA w : w.id # id)
  /\ UNCHANGED <<routeData, fallbackNotice, isCalculating, polyline, toast,
                 now>>
  /\ UNCHANGED handler

\* line 140: time passes between two readings of Date.now()
Tick ==
  /\ now < MaxClock
  /\ now' = now + 1
  /\ UNCHANGED <<routeData, fallbackNotice, isCalculating, polyline, toast,
                 waypoints>>
  /\ UNCHANGED handler

\* ------------------------------------------------------------ specifications
\* the request pipeline: every request, one directions answer of each kind
Next ==
  \/ Preflight
  \/ BodyFault
  \/ TooFewWaypoints
  \/ KeyMissing
  \/ StartGeocoding
  \/ \E i \in 1..Len(geo) : GeocodeReturn(i)
  \/ InsufficientPoints
  \/ CallDirections
  \/ DirectionsReject(PipelineAnswers)
  \/ DirectionsHttpError(PipelineAnswers)
  \/ DirectionsBadBody(PipelineAnswers)
  \/ DirectionsNoFeature(PipelineAnswers)
  \/ DirectionsSuccess(PipelineAnswers)

Spec == Init /\ [][Next]_vars

\* the reconciliation of one answer: few requests, every geometry up to
\* MaxCoords points with every summary
ReconcileRequests ==
  {r \in Requests :
     /\ Len(r.waypoints) <= 2
     /\ \A i \in 1..Len(r.waypoints) :
          <<r.waypoints[i].lat, r.waypoints[i].lng>>
            \in {<<NaN, NaN>>, <<Berlin.lat, Berlin.lng>>}}

InitReconcile == InitWith(ReconcileRequests)

NextReconcile ==
  \/ Preflight
  \/ BodyFault
  \/ TooFewWaypoints
  \/ KeyMissing
  \/ StartGeocoding
  \/ \E i \in 1..Len(geo) : GeocodeReturn(i)
  \/ InsufficientPoints
  \/ CallDirections
  \/ DirectionsReject(ReconcileAnswers)
  \/ DirectionsHttpError(ReconcileAnswers)
  \/ DirectionsBadBody(ReconcileAnswers)
  \/ DirectionsNoFeature(ReconcileAnswers)
  \/ DirectionsSuccess(ReconcileAnswers)

SpecReconcile == InitReconcile /\ [][NextReconcile]_vars

\* the order of completion of the geocoder calls: driving requests whose
\* waypoints carry Berlin's coordinates or none, with every completion
\* written to completionOrder
OrderRequests ==
  {r \in Requests :
     /\ r.mode = "car"
     /\ \A i \in 1..Len(r.waypoints) :
          <<r.waypoints[i].lat, r.waypoints[i].lng>>
            \in {<<NaN, NaN>>, <<Berlin.lat, Berlin.lng>>}}

InitOrder == InitWith(OrderRequests)

NextOrder ==
  \/ Preflight
  \/ BodyFault
  \/ TooFewWaypoints
  \/ KeyMissing
  \/ StartGeocoding
  \/ \E i \in 1..Len(geo) : GeocodeReturnObserved(i)
  \/ InsufficientPoints
  \/ CallDirections
  \/ DirectionsReject(PipelineAnswers)
  \/ DirectionsHttpError(PipelineAnswers)
  \/ DirectionsBadBody(PipelineAnswers)
  \/ DirectionsNoFeature(PipelineAnswers)
  \/ DirectionsSuccess(PipelineAnswers)

SpecOrder == InitOrder /\ [][NextOrder]_vars

\* the options of the request: few waypoints, every mode and every value
\* (true, false, left out) of the three flags
FewWaypointLists ==
  {w \in WaypointLists :
     /\ Len(w) <= 2
     /\ \A i \in 1..Len(w) :
          <<w[i].lat, w[i].lng>> \in {<<NaN, NaN>>, <<Berlin.lat, Berlin.lng>>}}

OptionsRequests ==
  {r \in Requests : r.waypoints = <<>>}
  \cup {RouteRequest("POST", TRUE, TRUE, w, mode, tolls, hw, fast) :
          w \in FewWaypointLists, mode \in {"car", "walking"},
          tolls \in Flags, hw \in Flags, fast \in Flags}

InitOptions == InitWith(OptionsRequests)

SpecOptions == InitOptions /\ [][Next]_vars

\* longer requests for the sanitizer: driving requests of up to
\* MaxDropWaypoints waypoints that carry Berlin's coordinates or none, so
\* that a waypoint between two equal points can stay unresolved
DropRequests ==
  {r \in Requests : r.waypoints = <<>>}
  \cup {RouteRequest("POST", TRUE, TRUE,
                     [i \in 1..Len(cs) |-> Waypoint(i, cs[i])],
                     "car", "false", "false", "true") :
          cs \in SeqsUpTo({<<NaN, NaN>>, <<Berlin.lat, Berlin.lng>>},
                          MaxDropWaypoints)}

InitDrop == InitWith(DropRequests)

SpecDrop == InitDrop /\ [][Next]_vars

\* services that may never answer.  The runtime runs every continuation
\* that is ready and each service either answers or never does, so every
\* step that stays possible is taken in the end.
InitLive == InitWith(ReconcileRequests)

NextLive ==
  \/ Preflight
  \/ BodyFault
  \/ TooFewWaypoints
  \/ KeyMissing
  \/ StartGeocoding
  \/ \E i \in 1..Len(geo) : GeocodeReturn(i)
  \/ \E i \in 1..Len(geo) : GeocoderNeverAnswers(i)
  \/ InsufficientPoints
  \/ CallDirections
  \/ DirectionsNeverAnswers
  \/ DirectionsReject(PipelineAnswers)
  \/ DirectionsHttpError(PipelineAnswers)
  \/ DirectionsBadBody(PipelineAnswers)
  \/ DirectionsNoFeature(PipelineAnswers)
  \/ DirectionsSuccess(PipelineAnswers)

SpecLive == InitLive /\ [][NextLive]_vars /\ WF_vars(NextLive)

\* the page: calculateRoute invocations one after the other, each served
\* by the edge function; a geometry with an unusable pair is among the
\* answers of the directions service
PageAnswers ==
  PipelineAnswers
  \cup OkAnswers({LineString(<<<<Berlin.lng, Berlin.lat>>, <<NaN, NaN>>,
                               <<Paris.lng, Paris.lat>>>>)},
                 {Absent}, {Absent}, {NoSegments})

InitPage ==
  /\ request = NoRequest
  /\ orsApiKey \in BOOLEAN
  /\ pc = "idle"
  /\ geo = <<>>
  /\ filtered = <<>>
  /\ valid = <<>>
  /\ orsRequest = NoOrsRequest
  /\ orsAnswer = NoAnswer
  /\ response = NoResponse
  /\ completionOrder = <<>>
  /\ routeData = NoRouteData
  /\ fallbackNotice = ""
  /\ isCalculating = FALSE
  /\ polyline = <<>>
  /\ waypoints = PageWaypoints
  /\ toast = <<>>
  /\ now = 0

NextPage ==
  \/ calculateRoute
  \/ InvokeReturns
  \/ KeyMissing
  \/ StartGeocoding
  \/ \E i \in 1..Len(geo) : GeocodeReturn(i)
  \/ InsufficientPoints
  \/ CallDirections
  \/ DirectionsReject(PageAnswers)
  \/ DirectionsHttpError(PageAnswers)
  \/ DirectionsBadBody(PageAnswers)
  \/ DirectionsNoFeature(PageAnswers)
  \/ DirectionsSuccess(PageAnswers)

SpecPage == InitPage /\ [][NextPage]_vars

\* the page with its address fields edited at any time.  The runtime runs
\* every continuation that is ready, and here each service answers: the
\* steps of the edge function and the return of the invocation are taken
\* in the end.  Nothing obliges the user to press the button or to edit,
\* and nothing obliges the invocation to fail.
StepsOfInvocation ==
  \/ InvokeReturns
  \/ KeyMissing
  \/ StartGeocoding
  \/ \E i \in 1..Len(geo) : GeocodeReturn(i)
  \/ InsufficientPoints
  \/ CallDirections
  \/ DirectionsReject(PipelineAnswers)
  \/ DirectionsHttpError(PipelineAnswers)
  \/ DirectionsBadBody(PipelineAnswers)
  \/ DirectionsNoFeature(PipelineAnswers)
  \/ DirectionsSuccess(PipelineAnswers)

NextPageLive ==
  \/ calculateRoute
  \/ \E i \in 1..Len(waypoints), a \in PageAddresses :
       updateWaypointAddress(waypoints[i].id, a)
  \/ InvokeFails
  \/ StepsOfInvocation

SpecPageLive ==
  InitPage /\ [][NextPageLive]_vars /\ WF_vars(StepsOfInvocation)

\* the waypoint list of the page under the operations of the sidebar, with
\* two clicks possible within one reading of the clock
NextList ==
  \/ addWaypoint
  \/ \E i \in 1..Len(waypoints) : removeWaypoint(waypoints[i].id)
  \/ \E i \in 1..Len(waypoints), a \in PageAddresses :
       updateWaypointAddress(waypoints[i].id, a)
  \/ Tick

SpecList == InitPage /\ [][NextList]_vars

\* ------------------------------------------------------------------- claims
\* the response is a route object (not a preflight or error response) that
\* is flagged as fallback and carries a message
IsFallbackRoute(r) ==
  /\ r.kind = "route"
  /\ r.status = 200
  /\ r.fallback
  /\ r.errorMessage # ""

\* the geometry is a bare array with one [lat, lng] pair per entry of the
\* result's waypoints field, in the same order
StraightLineOverWaypoints(r) ==
  /\ r.geometry.shape = "array"
  /\ Len(r.geometry.coords) = Len(r.waypoints)
  /\ \A i \in 1..Len(r.waypoints) :
       /\ r.geometry.coords[i][1] = r.waypoints[i].lat
       /\ r.geometry.coords[i][2] = r.waypoints[i].lng

\* C1: when the directions service answers with a non-2xx status, the
\* handler returns fallback == true, a non-empty errorMessage and a geometry
\* with exactly one [lat, lng] entry per valid waypoint, in the order of the
\* result's waypoints field (which is the valid sequence).
C1_HttpErrorGivesFallback ==
  (pc = "done" /\ orsAnswer.kind = "http") =>
    /\ IsFallbackRoute(response)
    /\ response.waypoints = valid
    /\ Len(valid) >= 2
    /\ StraightLineOverWaypoints(response)

C1_Witness ==
  /\ pc = "done"
  /\ orsAnswer.kind = "http"
  /\ orsAnswer.status = 500
  /\ Len(valid) = 3
  /\ \E i \in 1..Len(geo) : geo[i].answer = "match"
  /\ response.fallback
  /\ response.geometry.coords[1] # response.geometry.coords[2]

\* C2 (as claimed): when the fetch to the directions service rejects, the
\* handler still returns a fallback route with a non-empty errorMessage and
\* the straight line over the valid waypoints, not a request-level error.
C2_RejectGivesFallback ==
  (pc = "done" /\ orsAnswer.kind = "reject") =>
    /\ IsFallbackRoute(response)
    /\ response.waypoints = valid
    /\ StraightLineOverWaypoints(response)

\* the first feature is a LineString with two or more coordinate pairs
IsRealRoute(feature) ==
  /\ feature.present
  /\ feature.hasGeometry
  /\ feature.type = "LineString"
  /\ feature.coordsIsArray
  /\ Len(feature.coordinates) >= 2

\* C3 (as claimed): a 2xx answer gives fallback == false only if its first
\* feature is a LineString with two or more coordinate pairs; a missing
\* feature, another geometry type or fewer than 2 pairs gives a fallback
\* result, never fallback == false with an empty or single-point geometry.
C3_RealRouteNeedsTwoPoints ==
  (pc = "done" /\ orsAnswer.kind = "ok" /\ orsAnswer.bodyParses) =>
    /\ response.kind = "route"
    /\ ~response.fallback => IsRealRoute(orsAnswer.feature)
    /\ ~IsRealRoute(orsAnswer.feature) => IsFallbackRoute(response)
    /\ ~response.fallback => Len(response.geometry.coords) >= 2

\* the length of a [lon, lat] geometry in metres, from its points alone:
\* the great-circle lengths of the legs whose four numbers are finite
LegCm(c, i) ==
  IF \A k \in {i, i + 1} : c[k][1] # NaN /\ c[k][2] # NaN
  THEN haversineKm(c[i][2], c[i][1], c[i + 1][2], c[i + 1][1])
  ELSE 0

RECURSIVE LegsCm(_, _)
LegsCm(c, n) == IF n < 1 THEN 0 ELSE LegsCm(c, n - 1) + LegCm(c, n)

GeometryMeters(c) == RoundDiv(LegsCm(c, Len(c) - 1), 100)

IsSuccess == pc = "done" /\ response.kind = "route" /\ ~response.fallback

\* C4: in every success result distanceMeters is the (rounded) sum of the
\* segment lengths of the returned geometry and the distance string is that
\* number of kilometres with one decimal, whatever summary.distance the
\* service sent (a number, zero or nothing).
C4_DistanceFromGeometryOnly ==
  IsSuccess =>
    /\ response.distanceMeters = GeometryMeters(response.geometry.coords)
    /\ response.distance =
         toFixed1Comma(
           RoundDiv(GeometryMeters(response.geometry.coords), 100)) \o " km"

C4_Witness ==
  /\ IsSuccess
  /\ orsAnswer.summary.distance = 5000
  /\ response.distanceMeters = 877463
  /\ response.distance = "877,5 km"

\* the estimate of C5: distanceKm / speed * 3600, rounded, with 60 km/h for
\* driving and 4.5 km/h for walking
EstimatedSeconds(meters, profile) ==
  IF profile = "foot-walking"
  THEN RoundDiv(meters * 4, 5)
  ELSE RoundDiv(meters * 6, 100)

DurationPresent(summary) == summary.duration # Absent /\ summary.duration > 0

DurationRule ==
  IsSuccess =>
    response.durationSeconds =
      IF DurationPresent(orsAnswer.summary)
      THEN orsAnswer.summary.duration
      ELSE EstimatedSeconds(response.distanceMeters, orsRequest.profile)

\* C5 (as claimed): durationSeconds is the service's summary.duration when
\* present and positive, else the rounded estimate; so a route of positive
\* length never reports a zero or missing duration.
C5_DurationNeverZero ==
  /\ DurationRule
  /\ (IsSuccess /\ response.distanceMeters > 0) =>
       (response.durationSeconds # Absent /\ response.durationSeconds > 0)

\* C5 (amended): durationSeconds is the service's summary.duration when
\* present and positive, else the rounded estimate; it is never missing, and
\* it is positive for a driving route of 9 metres or more and for a walking
\* route of 1 metre or more.
C5_DurationRule ==
  /\ DurationRule
  /\ IsSuccess => response.durationSeconds # Absent
  /\ (IsSuccess /\ orsRequest.profile = "driving-car"
        /\ response.distanceMeters >= 9) => response.durationSeconds > 0
  /\ (IsSuccess /\ orsRequest.profile = "foot-walking"
        /\ response.distanceMeters >= 1) => response.durationSeconds > 0

C5_Witness ==
  /\ IsSuccess
  /\ orsAnswer.summary.duration = Absent
  /\ orsRequest.profile = "foot-walking"
  /\ response.distanceMeters = 877463
  /\ response.durationSeconds = 701970

\* the request is a POST whose body parsed
ParsedRequest == request.method = "POST" /\ request.bodyParses

\* the waypoints after geocoding (the request's own when no geocoding ran)
ResolvedWaypoints ==
  IF geo # <<>> THEN [i \in 1..Len(geo) |-> geo[i].wp] ELSE request.waypoints

\* what the waypoints resolve to is settled: there are fewer than 2 of them,
\* every geocoder call has returned, or none was needed
ResolutionKnown ==
  \/ Len(request.waypoints) < 2
  \/ geo # <<>> /\ \A i \in 1..Len(geo) : geo[i].state # "pending"
  \/ \A i \in 1..Len(request.waypoints) :
       request.waypoints[i].lat # NaN /\ request.waypoints[i].lng # NaN

\* the resolved points, unresolved waypoints dropped
ResolvedPoints ==
  LET ws == SelectSeq(ResolvedWaypoints,
                      LAMBDA w : w.lat # NaN /\ w.lng # NaN)
  IN  [i \in 1..Len(ws) |-> <<ws[i].lat, ws[i].lng>>]

\* the number of places where the point sequence changes: collapsing runs of
\* equal points leaves Changes + 1 points
Changes(pts) == Cardinality({k \in 1..Len(pts) - 1 : pts[k] # pts[k + 1]})

\* fewer than 2 distinct points: after collapsing at most one point is left,
\* or exactly two that agree within the tolerance in both coordinates
FewDistinctPoints(pts) ==
  \/ Len(pts) = 0
  \/ Changes(pts) = 0
  \/ /\ Changes(pts) = 1
     /\ Abs(pts[1][1] - pts[Len(pts)][1]) < TolMicroDeg
     /\ Abs(pts[1][2] - pts[Len(pts)][2]) < TolMicroDeg

IsInsufficientResult(r) ==
  /\ IsFallbackRoute(r)
  /\ r.distance = "0 km"
  /\ r.instructions = <<>>

\* C6 (as claimed): every request whose waypoints resolve to fewer than 2
\* distinct points gets the insufficient-waypoints result, never a
\* request-level error.
C6_FewPointsNeverError ==
  (pc = "done" /\ ParsedRequest /\ ResolutionKnown
     /\ FewDistinctPoints(ResolvedPoints))
    => IsInsufficientResult(response)

\* C6 (amended): every request whose waypoints resolve to fewer than 2
\* distinct points gets the insufficient-waypoints result, provided the
\* credential is configured or the request has fewer than 2 waypoint entries.
C6_FewPointsInsufficient ==
  (pc = "done" /\ ParsedRequest /\ ResolutionKnown
     /\ FewDistinctPoints(ResolvedPoints)
     /\ (orsApiKey \/ Len(request.waypoints) < 2))
    => IsInsufficientResult(response)

C6_Witness ==
  /\ pc = "done"
  /\ orsApiKey
  /\ Len(request.waypoints) = 3
  /\ \E i \in 1..Len(geo) : geo[i].answer = "reject"
  /\ Len(filtered) = 2
  /\ Len(valid) = 1
  /\ IsInsufficientResult(response)

\* C7: a request whose waypoints field is no array or has fewer than 2
\* entries gets a structured insufficient-waypoints response (status 200,
\* fallback == true, errorMessage set, empty geometry and instructions), with
\* or without a configured credential.
C7_TooFewWaypointsStructured ==
  (pc = "done" /\ ParsedRequest
     /\ (~request.waypointsIsArray \/ Len(request.waypoints) < 2))
    => /\ IsFallbackRoute(response)
       /\ response.geometry.shape = "array"
       /\ response.geometry.coords = <<>>
       /\ response.instructions = <<>>

C7_Witness ==
  /\ pc = "done"
  /\ ParsedRequest
  /\ ~orsApiKey
  /\ Len(request.waypoints) = 1
  /\ response.fallback
  /\ response.waypoints = request.waypoints

\* the filter / dedupe stage of the handler has run
Sanitized ==
  /\ pc \in {"directions", "done"}
  /\ geo # <<>>
  /\ \A i \in 1..Len(geo) : geo[i].state # "pending"
  /\ response.kind = "error" => orsAnswer.kind # "none"

\* a is b with some entries left out
RECURSIVE IsSubsequence(_, _, _, _)
IsSubsequence(a, i, b, j) ==
  IF i > Len(a) THEN TRUE
  ELSE IF j > Len(b) THEN FALSE
  ELSE IF a[i] = b[j] THEN IsSubsequence(a, i + 1, b, j + 1)
  ELSE IsSubsequence(a, i, b, j + 1)

\* C8: dedupeConsecutive returns a subsequence of its input (order kept,
\* first point kept) in which no two adjacent points have both the same lat
\* and the same lng.
C8_DedupeConsecutive ==
  Sanitized =>
    /\ IsSubsequence(valid, 1, filtered, 1)
    /\ filtered # <<>> => (valid # <<>> /\ valid[1] = filtered[1])
    /\ \A k \in 1..Len(valid) - 1 :
         ~(valid[k].lat = valid[k + 1].lat /\ valid[k].lng = valid[k + 1].lng)

C8_Witness ==
  /\ Sanitized
  /\ Len(filtered) = 3
  /\ Len(valid) = 2
  /\ filtered[2].lat = filtered[3].lat
  /\ filtered[2].lng = filtered[3].lng
  /\ valid[2] = filtered[2]

\* the caller supplied finite lat and lng for waypoint i
CallerHasCoords(i) ==
  request.waypoints[i].lat # NaN /\ request.waypoints[i].lng # NaN

\* C9: in a request that reaches the geocoding step the geocoder is called
\* exactly once for each waypoint that lacks a finite lat or lng and never
\* for a waypoint that carries both; such a waypoint keeps the caller's
\* coordinates in the Promise.all slot and in the result's waypoints.
C9_GeocodeOnlyUnresolved ==
  /\ \A i \in 1..Len(geo) :
       /\ CallerHasCoords(i) =>
            (geo[i].calls = 0 /\ geo[i].wp = request.waypoints[i])
       /\ ~CallerHasCoords(i) => geo[i].calls = 1
  /\ (response.kind = "route" /\ request.waypointsIsArray) =>
       \A k \in 1..Len(response.waypoints) :
         LET w == response.waypoints[k]
         IN  CallerHasCoords(w.id) =>
               (w.lat = request.waypoints[w.id].lat
                /\ w.lng = request.waypoints[w.id].lng)

C9_Witness ==
  /\ pc = "done"
  /\ response.kind = "route"
  /\ Len(geo) = 3
  /\ Len(response.waypoints) = 3
  /\ geo[1].calls = 0
  /\ geo[2].calls = 1
  /\ geo[2].answer = "match"
  /\ request.waypoints[3].lat # NaN
  /\ request.waypoints[3].lng = NaN
  /\ geo[3].calls = 1

\* waypoint i ends with finite coordinates: the caller's, or those of a
\* geocoder match whose lat and lon are numbers
Resolves(i) ==
  \/ CallerHasCoords(i)
  \/ /\ geo[i].answer = "match"
     /\ geo[i].wp.lat # NaN
     /\ geo[i].wp.lng # NaN

\* the slots of the waypoints that resolve, in request order
RECURSIVE ResolvedFrom(_)
ResolvedFrom(i) ==
  IF i > Len(geo) THEN <<>>
  ELSE (IF Resolves(i) THEN <<geo[i].wp>> ELSE <<>>) \o ResolvedFrom(i + 1)

\* C10: a geocoder call that fails, finds nothing or returns non-numeric
\* coordinates never fails the request and leaves the other waypoints alone:
\* the handler goes on once every call has returned, the valid sequence
\* (before collapsing) holds exactly the waypoints that resolve, in request
\* order, and no error response arises before the directions call.
C10_GeocodeFailureDropsOnlyThatWaypoint ==
  (geo # <<>> /\ pc \in {"directions", "done"}) =>
    /\ \A i \in 1..Len(geo) : geo[i].state # "pending"
    /\ response.kind = "error" => orsAnswer.kind # "none"
    /\ filtered = ResolvedFrom(1)
    /\ \A i \in 1..Len(geo) :
         Resolves(i) <=> \E k \in 1..Len(filtered) : filtered[k].id = i

C10_Witness ==
  /\ pc = "directions"
  /\ Len(geo) = 3
  /\ geo[1].answer = "reject"
  /\ geo[2].answer = "match"
  /\ geo[2].wp.lat # NaN
  /\ geo[3].answer = "match"
  /\ geo[3].wp.lat # NaN
  /\ Len(filtered) = 2
  /\ filtered[1].id = 2
  /\ filtered[2].id = 3

\* the ids of a list of waypoints; the id of a waypoint of the request is
\* its position in the request
Ids(s) == [k \in 1..Len(s) |-> s[k].id]

Increasing(s) == \A k \in 1..Len(s) - 1 : s[k] < s[k + 1]

\* C11: whatever the order in which the geocoder calls complete, the
\* waypoints of the valid sequence (before and after collapsing) stand in
\* the order of the request, each with the coordinates its own slot
\* resolved to; the coordinates sent to the directions service and the
\* waypoints field of the result follow the valid sequence.
C11_RequestOrderKept ==
  Sanitized =>
    /\ Increasing(Ids(filtered))
    /\ Increasing(Ids(valid))
    /\ \A k \in 1..Len(filtered) : filtered[k] = geo[filtered[k].id].wp
    /\ orsRequest.sent =>
         orsRequest.coordinates =
           [k \in 1..Len(valid) |->
              <<geo[valid[k].id].wp.lng, geo[valid[k].id].wp.lat>>]
    /\ response.kind = "route" => response.waypoints = valid

C11_Witness ==
  /\ pc = "done"
  /\ completionOrder = <<3, 2, 1>>
  /\ response.kind = "route"
  /\ ~response.fallback
  /\ Ids(valid) = <<1, 2, 3>>
  /\ Ids(response.waypoints) = <<1, 2, 3>>
  /\ Len(orsRequest.coordinates) = 3

\* the geometry is a bare array whose entries are [lat, lng] pairs of the
\* result's waypoints
BareLatLngArray(r) ==
  /\ r.geometry.shape = "array"
  /\ \A k \in 1..Len(r.geometry.coords) :
       \E i \in 1..Len(r.waypoints) :
         r.geometry.coords[k] = <<r.waypoints[i].lat, r.waypoints[i].lng>>

\* the geometry is the LineString object of the directions service, its
\* coordinates as the service sent them, [lon, lat]
ServiceLineString(r) ==
  /\ r.geometry.shape = "LineString"
  /\ r.geometry.coords = orsAnswer.feature.coordinates
  /\ \A k \in 1..Len(r.geometry.coords) : r.geometry.coords[k] \in LonLatPairs

\* C12: in every route response, fallback is true exactly when the geometry
\* is a bare array of [lat, lng] pairs and an errorMessage is attached, and
\* false exactly when the geometry is a GeoJSON LineString with [lon, lat]
\* coordinates and there is no errorMessage.
C12_FallbackFlagMatchesGeometry ==
  (pc = "done" /\ response.kind = "route") =>
    /\ response.fallback <=>
         (BareLatLngArray(response) /\ response.errorMessage # "")
    /\ ~response.fallback <=>
         (ServiceLineString(response) /\ response.errorMessage = "")

C12_Witness ==
  /\ pc = "done"
  /\ response.kind = "route"
  /\ ~response.fallback
  /\ response.geometry.shape = "LineString"
  /\ Len(response.geometry.coords) = 2
  /\ response.geometry.coords[1] = <<Berlin.lng, Berlin.lat>>
  /\ response.errorMessage = ""

\* C13: a request with at least 2 waypoints that finds the credential
\* absent is answered by a request-level error (HTTP 500 with an error
\* field), never by a route or a fallback result, and calls neither the
\* geocoder nor the directions service.
C13_MissingKeyIsRequestError ==
  (/\ ParsedRequest
   /\ request.waypointsIsArray
   /\ Len(request.waypoints) >= 2
   /\ ~orsApiKey) =>
    /\ pc \in {"start", "done"}
    /\ geo = <<>>
    /\ ~orsRequest.sent
    /\ pc = "done" =>
         /\ response.kind = "error"
         /\ response.status = 500
         /\ response.error # ""
         /\ ~response.fallback

C13_Witness ==
  /\ pc = "done"
  /\ ParsedRequest
  /\ Len(request.waypoints) = 3
  /\ CallerHasCoords(1)
  /\ ~orsApiKey
  /\ response.kind = "error"
  /\ response.error = "OpenRouteService API key not configured"

\* a fault the handler does not anticipate has struck: the request body
\* cannot be parsed, the fetch of the directions service rejected, or its
\* 2xx body cannot be parsed
Faulted ==
  \/ ~request.bodyParses
  \/ orsAnswer.kind = "reject"
  \/ orsAnswer.kind = "ok" /\ ~orsAnswer.bodyParses

\* C14: every request other than OPTIONS that hits such a fault is answered
\* by the handler itself, with a JSON error response that carries a
\* message; every finished request has a response.
C14_FaultGivesJsonError ==
  pc = "done" =>
    /\ response.kind # "none"
    /\ (request.method # "OPTIONS" /\ Faulted) =>
         /\ response.kind = "error"
         /\ response.status = 500
         /\ response.error # ""

C14_Witness ==
  /\ pc = "done"
  /\ request.method = "POST"
  /\ ~request.bodyParses
  /\ response.kind = "error"
  /\ response.error = "Unexpected end of JSON input"

\* C16: the preference sent to the directions service is "fastest" when
\* fastestRoute is true or left out of the request, and "shortest" only
\* when fastestRoute is false.
C16_FastestUnlessExplicitlyFalse ==
  orsRequest.sent =>
    orsRequest.preference =
      (IF request.fastestRoute = "false" THEN "shortest" ELSE "fastest")

Range(s) == {s[k] : k \in 1..Len(s)}

\* C17: the directions request carries options.avoid_features only for the
\* driving profile with avoidTolls or avoidHighways set; the list then
\* holds "tollways" iff avoidTolls and "highways" iff avoidHighways and
\* nothing else; for the walking profile, and when neither flag is set, the
\* options field is left out and no list, empty or not, is sent.
C17_AvoidFeatures ==
  orsRequest.sent =>
    LET tolls == request.avoidTolls = "true"
        highways == request.avoidHighways = "true"
        list == orsRequest.avoid_features
    IN  /\ orsRequest.profile =
             (IF request.mode = "walking" THEN "foot-walking"
              ELSE "driving-car")
        /\ orsRequest.hasOptions <=>
             (orsRequest.profile = "driving-car" /\ (tolls \/ highways))
        /\ orsRequest.hasOptions =>
             /\ "tollways" \in Range(list) <=> tolls
             /\ "highways" \in Range(list) <=> highways
             /\ Range(list) \subseteq {"tollways", "highways"}
             /\ Cardinality(Range(list)) = Len(list)
        /\ ~orsRequest.hasOptions => list = <<>>

C17_Witness ==
  /\ orsRequest.sent
  /\ orsRequest.profile = "driving-car"
  /\ request.avoidTolls = "undefined"
  /\ request.avoidHighways = "true"
  /\ orsRequest.hasOptions
  /\ orsRequest.avoid_features = <<"highways">>

\* C20: a 2xx answer of the directions service whose body cannot be parsed
\* gives a fallback result (fallback true, errorMessage, straight-line
\* geometry), not a request-level error.
C20_UnparseableBodyGivesFallback ==
  (pc = "done" /\ orsAnswer.kind = "ok" /\ ~orsAnswer.bodyParses) =>
    /\ IsFallbackRoute(response)
    /\ StraightLineOverWaypoints(response)

\* C15: every request is answered in the end, also when the geocoder or
\* the directions service never answers.
C15_EveryRequestAnswered == <>(pc = "done")

\* the route held in routeData came from a fallback response: only those
\* carry a bare array as geometry (C12)
FromFallback(rd) == rd.present /\ rd.geometry.shape = "array"

\* C18: after any sequence of calculateRoute invocations, whenever the
\* route held in routeData came from a fallback response, the fallback
\* notice is displayed.
C18_FallbackRouteShowsNotice ==
  (~isCalculating /\ FromFallback(routeData)) => fallbackNotice # ""

\* a point in geographic order: the latitude of a model place, then its
\* longitude
IsLatLon(pt) == \E p \in Places : pt = <<p.lat, p.lng>>

\* the number of pairs of finite numbers in a list of pairs
UsablePairs(c) ==
  Cardinality({k \in 1..Len(c) : c[k][1] # NaN /\ c[k][2] # NaN})

Swapped(pts) == [k \in 1..Len(pts) |-> <<pts[k][2], pts[k][1]>>]

\* C19: for both response branches of the handler the points the map layer
\* hands to the polyline are in geographic order (lat, lon): the usable
\* pairs of a LineString geometry each swapped from [lon, lat], those of a
\* fallback array as they are, in the order of the geometry; the geometry
\* drawn is the one of the server's response.
C19_PolylineInGeographicOrder ==
  /\ \A k \in 1..Len(polyline) : IsLatLon(polyline[k])
  /\ routeData.present =>
       LET g == routeData.geometry
       IN  /\ Len(polyline) =
                (IF UsablePairs(g.coords) >= 2 THEN UsablePairs(g.coords)
                 ELSE 0)
           /\ g.shape = "array" => IsSubsequence(polyline, 1, g.coords, 1)
           /\ g.shape = "LineString" =>
                IsSubsequence(Swapped(polyline), 1, g.coords, 1)
  /\ (pc = "idle" /\ response.kind = "route") =>
       routeData.geometry = response.geometry

C19_Witness ==
  /\ pc = "idle"
  /\ response.kind = "route"
  /\ ~response.fallback
  /\ routeData.geometry.shape = "LineString"
  /\ routeData.geometry.coords =
       <<<<Berlin.lng, Berlin.lat>>, <<NaN, NaN>>, <<Paris.lng, Paris.lat>>>>
  /\ polyline = <<<<Berlin.lat, Berlin.lng>>, <<Paris.lat, Paris.lng>>>>

\* fewer than 2 points remain, or exactly 2 whose latitudes and whose
\* longitudes differ by less than 1e-4 degrees
TooFewRemain(pts) ==
  \/ Len(pts) < 2
  \/ /\ Len(pts) = 2
     /\ pts[1].lat - pts[2].lat < TolMicroDeg
     /\ pts[2].lat - pts[1].lat < TolMicroDeg
     /\ pts[1].lng - pts[2].lng < TolMicroDeg
     /\ pts[2].lng - pts[1].lng < TolMicroDeg

\* C21: after collapsing, the request is rejected as insufficient, with no
\* directions call, if fewer than 2 points remain or if exactly 2 remain
\* whose latitudes and longitudes both differ by less than 1e-4; in every
\* other case the directions call is made.
C21_MinimumPointsCheck ==
  Sanitized =>
    /\ TooFewRemain(valid) =>
         (~orsRequest.sent /\ pc = "done" /\ IsInsufficientResult(response))
    /\ ~TooFewRemain(valid) => orsRequest.sent

C21_Witness ==
  /\ Sanitized
  /\ Len(valid) = 2
  /\ valid[1].lat = Berlin.lat
  /\ valid[2].lat = BerlinNear.lat
  /\ valid[2].lng = BerlinNear.lng
  /\ ~orsRequest.sent
  /\ response.fallback

\* a step that reaches the await of the directions fetch is the one that
\* sends the request
DirectionsCalledOnce ==
  (pc' = "directions" /\ pc # "directions") =>
    (~orsRequest.sent /\ orsRequest'.sent)

\* once the request is sent it stays as it is, and so do the geocoder slots
NothingAfterDirectionsCall ==
  orsRequest.sent =>
    (orsRequest' = orsRequest /\ geo' = geo /\ pc' # "geocoding")

\* C22: within one request the directions service is called at most once,
\* and only when every geocoder call of the request has completed; once it
\* is called no geocoder call starts or completes and the request sent is
\* not replaced.
C22_OneDirectionsCallAfterGeocoding ==
  /\ [](orsRequest.sent =>
         /\ pc \in {"directions", "done"}
         /\ \A i \in 1..Len(geo) : geo[i].state \in {"own", "done"})
  /\ [][DirectionsCalledOnce /\ NothingAfterDirectionsCall]_vars

C22_Witness ==
  /\ pc = "done"
  /\ orsRequest.sent
  /\ response.kind = "route"
  /\ Len(geo) = 3
  /\ \A i \in 1..3 : geo[i].calls = 1 /\ geo[i].state = "done"

\* the k-th of n placeholder instructions for a waypoint with this address
Placeholder(k, n, address) ==
  IF k = 1 THEN "1. Start in " \o address
  ELSE IF k = n THEN ToString(n) \o ". Ziel: " \o address
  ELSE ToString(k) \o ". Weiter nach " \o address

C24_CoordinatesLngLat ==
  orsRequest.sent =>
    /\ Len(orsRequest.coordinates) = Len(valid)
    /\ \A k \in 1..Len(valid) :
         /\ orsRequest.coordinates[k][1] = valid[k].lng
         /\ orsRequest.coordinates[k][2] = valid[k].lat
         /\ \E p \in Places : orsRequest.coordinates[k] = <<p.lng, p.lat>>

C24_Witness ==
  /\ orsRequest.sent
  /\ Len(valid) = 3
  /\ orsRequest.coordinates =
       <<<<Paris.lng, Paris.lat>>, <<Berlin.lng, Berlin.lat>>,
         <<BerlinNear.lng, BerlinNear.lat>>>>

\* a fallback route of the straight-line synthesis (HTTP error or no feature)
Synthesized ==
  /\ pc = "done"
  /\ IsFallbackRoute(response)
  /\ response.reason \in {"http_error", "no_feature"}

\* the duration the success branch shows for a route of this many metres
\* when the service's summary carries no duration
EstimatedDurationStr(metres, profile) ==
  durationStr(RoundDiv(metres * 36, speedKmh(profile)))

\* C25: the duration estimate is the same on both reconciliation paths:
\* for the same distance and the same mode, the duration of a synthesized
\* fallback equals the duration the success branch estimates when the
\* summary has no duration, for walking and for driving.
C25_DurationEstimateConsistent ==
  Synthesized =>
    response.duration =
      EstimatedDurationStr(RoundDiv(calculateSimpleDistance(valid), 100),
                           Profile(request.mode))

\* the duration strings whose minutes part lies in 0..59: "{M}min" below
\* one hour, "{H}h {M}min" from one hour on
HoursShown == 1..500

DurationStrings ==
  {ToString(m) \o "min" : m \in 0..59}
  \cup {ToString(h) \o "h " \o ToString(m) \o "min" :
          h \in HoursShown, m \in 0..59}

\* C26: in every duration string a route response carries, on the success
\* path and on the fallback paths, the minutes part lies in 0..59; neither
\* "{H}h 60min" nor "60min" is ever produced.
C26_MinutesBelowSixty ==
  (pc = "done" /\ response.kind = "route") =>
    response.duration \in DurationStrings

\* C27: the instructions of a successful route hold one entry per step of
\* every segment, in segment order and then step order, and the k-th entry
\* of the whole list is prefixed with k, also across several segments.
C27_InstructionsNumberedThroughout ==
  (pc = "done" /\ response.kind = "route" /\ ~response.fallback
   /\ orsAnswer.segments.isArray
   /\ \A j \in 1..Len(orsAnswer.segments.segs) :
        orsAnswer.segments.segs[j].stepsIsArray) =>
    LET segs == orsAnswer.segments.segs
        AllSteps[j \in 0..Len(segs)] ==
          IF j = 0 THEN <<>> ELSE AllSteps[j - 1] \o segs[j].steps
        steps == AllSteps[Len(segs)]
    IN  /\ Len(response.instructions) = Len(steps)
        /\ \A k \in 1..Len(steps) :
             response.instructions[k] = ToString(k) \o ". " \o steps[k]

\* the start or the end entry of the page's list has no address
StartOrEndEmpty ==
  \/ \A i \in 1..Len(waypoints) :
       waypoints[i].id = "start" => waypoints[i].address = ""
  \/ \A i \in 1..Len(waypoints) :
       waypoints[i].id = "end" => waypoints[i].address = ""

\* a step of the page that is idle with an empty start or end address and
\* does not edit the list: the only such step is a calculateRoute
\* invocation, and it starts nothing
EmptyAddressInvocationIsInert ==
  (~isCalculating /\ StartOrEndEmpty /\ waypoints' = waypoints) =>
    /\ isCalculating' = isCalculating
    /\ routeData' = routeData
    /\ pc' = "idle"
    /\ request' = request
    /\ response' = response

\* C28: every calculateRoute invocation that sets isCalculating to true
\* sets it back to false in the end, whether the invocation ends in a
\* route, a fallback, an error or a throw; an invocation with an empty
\* start or end address changes neither isCalculating nor routeData and
\* makes no call to the server.
C28_CalculatingFlagIsReset ==
  /\ (isCalculating ~> ~isCalculating)
  /\ [][EmptyAddressInvocationIsInert]_vars

C28_Witness ==
  /\ ~isCalculating
  /\ pc = "idle"
  /\ StartOrEndEmpty
  /\ toast = <<"Bitte geben Sie Start- und Zieladresse ein.">>
  /\ routeData.present
  /\ fallbackNotice # ""

\* a step that makes the list one entry longer keeps the last entry last
\* and the entries before it where they were, the new one in between
InsertedBeforeLast ==
  Len(waypoints') = Len(waypoints) + 1 =>
    /\ waypoints'[Len(waypoints')] = waypoints[Len(waypoints)]
    /\ SubSeq(waypoints', 1, Len(waypoints) - 1) =
         SubSeq(waypoints, 1, Len(waypoints) - 1)
    /\ waypoints'[Len(waypoints)].address = ""

\* C29: starting from [start, end], after any sequence of addWaypoint and
\* of removeWaypoint on interior entries the list has at least two
\* entries, the first with id "start" and the last with id "end";
\* addWaypoint always inserts immediately before the last entry.
C29_StartAndEndKept ==
  /\ [](/\ Len(waypoints) >= 2
        /\ waypoints[1].id = "start"
        /\ waypoints[Len(waypoints)].id = "end")
  /\ [][InsertedBeforeLast]_vars

C29_Witness ==
  /\ Len(waypoints) = 4
  /\ waypoints[1].id = "start"
  /\ waypoints[2].id = "waypoint-0"
  /\ waypoints[3].id = "waypoint-2"
  /\ waypoints[4].id = "end"

\* C30: whenever the handler calls the directions service, the coordinate
\* sequence it sends has at least two points and no two adjacent points
\* are identical, also when dropping an unresolved waypoint is what makes
\* two equal points adjacent.
C30_NoAdjacentDuplicatesSent ==
  orsRequest.sent =>
    /\ Len(orsRequest.coordinates) >= 2
    /\ \A k \in 1..(Len(orsRequest.coordinates) - 1) :
         orsRequest.coordinates[k] # orsRequest.coordinates[k + 1]

C30_Witness ==
  /\ orsRequest.sent
  /\ Len(geo) = 4
  /\ geo[1].wp.lat = Berlin.lat /\ geo[1].wp.lng = Berlin.lng
  /\ geo[2].wp.lat = NaN /\ geo[2].calls = 1
  /\ geo[3].wp.lat = Berlin.lat /\ geo[3].wp.lng = Berlin.lng
  /\ orsRequest.coordinates =
       <<<<Berlin.lng, Berlin.lat>>, <<Paris.lng, Paris.lat>>>>

====
